---- MODULE Spec2Model ----
(***************************************************************************)
(* falcontyping: type-hint driven request decoding for Falcon resources.   *)
(*                                                                         *)
(* The module models                                                       *)
(*   - typedjson/decoding.py : decode and its three decoders,              *)
(*   - base/utils.py         : validate_method_signature and               *)
(*                             patch_resource_methods,                     *)
(*   - base/wrapper.py       : TypedAPI.add_route,                         *)
(*   - middleware/typing_.py : TypingMiddleware.                           *)
(*                                                                         *)
(* Python values are records with a fixed set of fields, so that any two   *)
(* of them can be compared.                                                *)
(***************************************************************************)
EXTENDS Integers, Sequences, FiniteSets, TLC

VARIABLES providers, setOrder, dec, val, resources, routes, reg, req

vars == <<providers, setOrder, dec, val, resources, routes, reg, req>>

(***************************************************************************)
(* Bounds of the model.                                                    *)
(***************************************************************************)
MaxStrLen == 3
MaxUnionArity == 2
MaxExtraParams == 2

(***************************************************************************)
(* Declared types (type hints).                                            *)
(***************************************************************************)
Prim(n) == [k |-> "prim", n |-> n, args |-> <<>>]

StrT == Prim("str")
FloatT == Prim("float")
IntT == Prim("int")
BoolT == Prim("bool")
NoneT == Prim("NoneType")

\* _PRIMITIVE_TYPES = (str, float, int, bool, type(None))
PRIMITIVE_TYPES == {StrT, FloatT, IntT, BoolT, NoneT}

ModelT(n) == [k |-> "model", n |-> n, args |-> <<>>]

\* The model classes of example/api.py (pydantic) and tests/test_marshmallow.py
\* (marshmallow), plus a pydantic model that declares no field.
UserV1 == ModelT("UserV1")
UserV2 == ModelT("UserV2")
EmptyModel == ModelT("EmptyModel")
Model == ModelT("Model")

ProviderOf(n) == IF n = "Model" THEN "marshmallow" ELSE "pydantic"

\* typing.Any, a bare TypeVar, a parameterized generic List[int]
AnyT == [k |-> "any", n |-> "Any", args |-> <<>>]
TypeVarT == [k |-> "typevar", n |-> "T", args |-> <<>>]
ListIntT == [k |-> "generic", n |-> "List", args |-> <<IntT>>]

UnionT(args) == [k |-> "union", n |-> "Union", args |-> args]

\* falcon.Request and falcon.Response
RequestT == [k |-> "class", n |-> "Request", args |-> <<>>]
ResponseT == [k |-> "class", n |-> "Response", args |-> <<>>]

\* an instance Query(type_) or Body(type_) of base/types_.py used as a hint
QueryOf(type_) == [k |-> "Query", n |-> "Query", args |-> <<type_>>]
BodyOf(type_) == [k |-> "Body", n |-> "Body", args |-> <<type_>>]

\* hints.get(name, None) of a name that has no annotation
NoHint == [k |-> "none", n |-> "", args |-> <<>>]

\* filter(None, [MarshmallowSchema, PydanticBaseModel]): the providers that import
AllProviders == {"marshmallow", "pydantic"}

ModelClasses(P) == {m \in {UserV1, UserV2, EmptyModel, Model} : ProviderOf(m.n) \in P}

(***************************************************************************)
(* Raw (runtime) values.                                                   *)
(*   t   : runtime class; s : characters of a str; n : number of an int,   *)
(*   a bool (0/1) or a float (in tenths); d : items of a dict or           *)
(*   attributes of a model instance; cls : class of a model instance.      *)
(***************************************************************************)
Keys == {"username", "balance", "field"}
\* an item of a mapping: no item under the key, an item the field's validator
\* rejects, or one of two values it accepts
ItemStates == {"absent", "invalid", "a", "b"}
ValidItems == {"a", "b"}
NoItems == [key \in Keys |-> "absent"]

StrV(s) == [t |-> "str", s |-> s, n |-> 0, d |-> NoItems, cls |-> ""]
IntV(n) == [t |-> "int", s |-> <<>>, n |-> n, d |-> NoItems, cls |-> ""]
FloatV(n) == [t |-> "float", s |-> <<>>, n |-> n, d |-> NoItems, cls |-> ""]
BoolV(n) == [t |-> "bool", s |-> <<>>, n |-> n, d |-> NoItems, cls |-> ""]
NoneV == [t |-> "NoneType", s |-> <<>>, n |-> 0, d |-> NoItems, cls |-> ""]
DictV(d) == [t |-> "dict", s |-> <<>>, n |-> 0, d |-> d, cls |-> ""]
InstV(cls, d) == [t |-> "instance", s |-> <<>>, n |-> 0, d |-> d, cls |-> cls]

\* Python truthiness of a raw value (the test `if json:`)
Truthy(json) ==
    CASE json.t = "str" -> json.s # <<>>
      [] json.t \in {"int", "float", "bool"} -> json.n # 0
      [] json.t = "NoneType" -> FALSE
      [] json.t = "dict" -> \E key \in Keys : json.d[key] # "absent"
      [] OTHER -> TRUE

(***************************************************************************)
(* Outcomes of a decoder: a decoded value, a DecodingError carrying one of *)
(* the three reasons of typedjson/base.py, or an exception that escapes.   *)
(* The path of a reason is always the empty tuple: no decoder extends it.  *)
(* log lists the model classes whose provider was asked to construct an    *)
(* instance on the way to the outcome.                                     *)
(***************************************************************************)
Decoded(v) == [tag |-> "ok", val |-> v, reason |-> "", exc |-> "", log |-> <<>>]
DecodingError(reason, exc) ==
    [tag |-> "err", val |-> NoneV, reason |-> reason, exc |-> exc, log |-> <<>>]
Raised(exc) == [tag |-> "raise", val |-> NoneV, reason |-> "", exc |-> exc, log |-> <<>>]

Logged(log, outcome) == [outcome EXCEPT !.log = log \o @]

TypeMismatch == DecodingError("TypeMismatch", "")
UnsupportedDecoding == DecodingError("UnsupportedDecoding", "")
ExternalSerializerException(exc) == DecodingError("ExternalSerializerException", exc)

(***************************************************************************)
(* float(json) on the characters of a str, and float.is_integer / int().   *)
(* The strings of the model are over Alphabet, which holds no exponent,    *)
(* blank or underscore character: a float literal is then an optional      *)
(* sign, digits and at most one point, with at least one digit.            *)
(***************************************************************************)
Digits == {"0", "3", "5"}
Alphabet == Digits \cup {".", "-", "a"}

DigitVal(c) == CASE c = "0" -> 0 [] c = "3" -> 3 [] c = "5" -> 5 [] OTHER -> 0

RECURSIVE DigitsValue(_)
DigitsValue(s) ==
    IF s = <<>> THEN 0
    ELSE DigitsValue(SubSeq(s, 1, Len(s) - 1)) * 10 + DigitVal(s[Len(s)])

RECURSIVE Pow10(_)
Pow10(e) == IF e = 0 THEN 1 ELSE 10 * Pow10(e - 1)

\* float(json): [ok |-> FALSE] stands for ValueError; the number is
\* sign * mant / 10^frac
ParseFloat(s) ==
    LET neg == Len(s) > 0 /\ s[1] = "-"
        body == IF neg THEN Tail(s) ELSE s
        dots == {i \in 1..Len(body) : body[i] = "."}
        digs == SelectSeq(body, LAMBDA c : c \in Digits)
        wellFormed == /\ \A i \in 1..Len(body) : body[i] \in Digits \cup {"."}
                      /\ Cardinality(dots) <= 1
                      /\ Len(digs) >= 1
        frac == IF dots = {} THEN 0 ELSE Len(body) - (CHOOSE i \in dots : TRUE)
    IN  IF wellFormed
        THEN [ok |-> TRUE, neg |-> neg, mant |-> DigitsValue(digs), frac |-> frac]
        ELSE [ok |-> FALSE, neg |-> FALSE, mant |-> 0, frac |-> 0]

\* mutant: the is_integer test is missing, int() truncates
parse_int_truncating(json) ==
    LET number == ParseFloat(json.s)
    IN  IF ~number.ok THEN TypeMismatch
        ELSE Decoded(IntV((IF number.neg THEN -1 ELSE 1)
                          * (number.mant \div Pow10(number.frac))))

parse_int_from_string(json) ==
    LET number == ParseFloat(json.s)
    IN  IF ~number.ok THEN TypeMismatch
        ELSE IF number.mant % Pow10(number.frac) # 0 THEN TypeMismatch
        ELSE Decoded(IntV((IF number.neg THEN -1 ELSE 1)
                          * (number.mant \div Pow10(number.frac))))

(***************************************************************************)
(* The schema providers: "construct from mapping" of each model class.     *)
(* Each outcome logs the construction.                                     *)
(***************************************************************************)
Fields(cls) ==
    CASE cls = "UserV1" -> {"username"}
      [] cls = "UserV2" -> {"username", "balance"}
      [] cls = "Model" -> {"field"}
      [] OTHER -> {}

\* mutant: type_(json), the mapping passed as one positional argument
parse_pydantic_positional(type_, json) ==
    Logged(<<type_.n>>, ExternalSerializerException("TypeError"))

\* type_(**json): pydantic requires every declared field and ignores other keys
parse_pydantic_from_dict(type_, json) ==
    Logged(<<type_.n>>,
        IF json.t # "dict" THEN ExternalSerializerException("TypeError")
        ELSE IF \E f \in Fields(type_.n) : json.d[f] \notin ValidItems
        THEN ExternalSerializerException("ValidationError")
        ELSE Decoded(InstV(type_.n,
                 [key \in Keys |-> IF key \in Fields(type_.n) THEN json.d[key]
                                   ELSE "absent"])))

\* type_().load(json): marshmallow rejects unknown keys and invalid items, requires
\* no field, and returns the loaded mapping
parse_marshmallow_from_dict(type_, json) ==
    Logged(<<type_.n>>,
        IF json.t # "dict" THEN ExternalSerializerException("ValidationError")
        ELSE IF \E key \in Keys : \/ json.d[key] = "invalid"
                                 \/ (json.d[key] # "absent" /\ key \notin Fields(type_.n))
        THEN ExternalSerializerException("ValidationError")
        ELSE Decoded(DictV(json.d)))

\* dump to mapping: BaseModel.dict()
Dump(m) == DictV(m.d)

(***************************************************************************)
(* typedjson/annotation.py and isinstance                                  *)
(***************************************************************************)
origin_of(type_) == IF type_.k = "union" THEN "Union"
                    ELSE IF type_.k = "generic" THEN "list" ELSE "None"

args_of(type_) == type_.args

\* isinstance(json, type_) for a type_ that is a class; bool is a subclass of int
IsInstance(json, type_) ==
    CASE type_.k = "prim" ->
            \/ json.t = type_.n
            \/ (json.t = "bool" /\ type_.n = "int")
      [] type_.k = "model" -> json.t = "instance" /\ json.cls = type_.n
      [] OTHER -> FALSE

\* isinstance raises TypeError when type_ is no class: typing.Any, a TypeVar,
\* a subscripted generic
IsClass(type_) == type_.k \in {"prim", "model", "class"}

(***************************************************************************)
(* typedjson/decoding.py                                                   *)
(***************************************************************************)
RECURSIVE decode(_, _, _)
RECURSIVE decode_members(_, _, _, _)

\* mutant: the loop has no break, the last member that decodes wins
decode_members_no_break(P, args, i, json) ==
    LET decoded == decode(P, args[i], json)
    IN  IF decoded.tag = "raise" \/ i = Len(args) THEN decoded
        ELSE LET rest == Logged(decoded.log, decode_members(P, args, i + 1, json))
             IN  IF rest.tag = "err" /\ decoded.tag = "ok"
                 THEN [decoded EXCEPT !.log = rest.log]
                 ELSE rest

\* a variant of the loop that keeps the failure of the first member
decode_members_first_failure(P, args, i, json) ==
    LET decoded == decode(P, args[i], json)
    IN  IF decoded.tag # "err" \/ i = Len(args) THEN decoded
        ELSE LET rest == Logged(decoded.log, decode_members(P, args, i + 1, json))
             IN  IF rest.tag = "err" THEN [decoded EXCEPT !.log = rest.log] ELSE rest

\* the second loop of decode_as_union, from member i on
decode_members(P, args, i, json) ==
    LET decoded == decode(P, args[i], json)
    IN  IF decoded.tag # "err" \/ i = Len(args) THEN decoded
        ELSE Logged(decoded.log, decode_members(P, args, i + 1, json))

decode_as_union(P, type_, json) ==
    IF origin_of(type_) = "Union"
    THEN LET args == args_of(type_)
         IN  IF \E i \in 1..Len(args) : args[i].k = "typevar"
             THEN UnsupportedDecoding
             ELSE decode_members(P, args, 1, json)
    ELSE UnsupportedDecoding

\* mutant: a str is parsed as an int first, whatever the declared primitive
decode_as_primitive_parse_first(type_, json) ==
    IF type_ \notin PRIMITIVE_TYPES THEN UnsupportedDecoding
    ELSE IF json.t = "str" THEN parse_int_from_string(json)
    ELSE IF IsInstance(json, type_) THEN Decoded(json)
    ELSE TypeMismatch

decode_as_primitive(type_, json) ==
    IF type_ \notin PRIMITIVE_TYPES THEN UnsupportedDecoding
    ELSE IF IsInstance(json, type_) THEN Decoded(json)
    ELSE IF type_ = IntT /\ json.t = "str" THEN parse_int_from_string(json)
    ELSE TypeMismatch

\* mutant: the provider is asked to construct from an empty value too
decode_as_model_no_empty_test(P, type_, json) ==
    IF origin_of(type_) = "Union" THEN UnsupportedDecoding
    ELSE IF ~IsClass(type_) THEN Raised("TypeError")
    ELSE IF IsInstance(json, type_) THEN Decoded(json)
    ELSE IF "pydantic" \in P /\ type_.k = "model" /\ ProviderOf(type_.n) = "pydantic"
    THEN parse_pydantic_from_dict(type_, json)
    ELSE IF "marshmallow" \in P /\ type_.k = "model" /\ ProviderOf(type_.n) = "marshmallow"
    THEN parse_marshmallow_from_dict(type_, json)
    ELSE UnsupportedDecoding

decode_as_model(P, type_, json) ==
    IF origin_of(type_) = "Union" THEN UnsupportedDecoding
    ELSE IF ~IsClass(type_) THEN Raised("TypeError")
    ELSE IF IsInstance(json, type_) THEN Decoded(json)
    ELSE IF "pydantic" \in P /\ type_.k = "model" /\ ProviderOf(type_.n) = "pydantic"
    THEN IF Truthy(json) THEN parse_pydantic_from_dict(type_, json) ELSE TypeMismatch
    ELSE IF "marshmallow" \in P /\ type_.k = "model" /\ ProviderOf(type_.n) = "marshmallow"
    THEN IF Truthy(json) THEN parse_marshmallow_from_dict(type_, json) ELSE TypeMismatch
    ELSE UnsupportedDecoding

RunDecoder(decoder, P, type_, json) ==
    CASE decoder = "decode_as_union" -> decode_as_union(P, type_, json)
      [] decoder = "decode_as_primitive" -> decode_as_primitive(type_, json)
      [] decoder = "decode_as_model" -> decode_as_model(P, type_, json)

\* the loop of decode over the decoders left, with result_final so far: a
\* decoded value ends it, a TypeMismatch is kept, any other failure is dropped
RECURSIVE decode_loop(_, _, _, _, _)
decode_step(decoders, result_final, result, P, type_, json) ==
    IF result.tag = "raise" THEN result
    ELSE IF result.tag = "err"
    THEN decode_loop(decoders,
                     IF result.reason = "TypeMismatch" THEN result
                     ELSE [result_final EXCEPT !.log = result.log],
                     P, type_, json)
    ELSE result

decode_loop(decoders, result_final, P, type_, json) ==
    IF decoders = <<>> THEN result_final
    ELSE decode_step(Tail(decoders), result_final,
                     Logged(result_final.log, RunDecoder(Head(decoders), P, type_, json)),
                     P, type_, json)

decode(P, type_, json) ==
    decode_loop(<<"decode_as_union", "decode_as_primitive", "decode_as_model">>,
                UnsupportedDecoding, P, type_, json)

(***************************************************************************)
(* base/utils.py: signature validation.                                    *)
(*                                                                         *)
(* A handler is [name, args, hints]: its __name__, the argument names of   *)
(* inspect.getfullargspec (the receiver first) and its type hints, NoHint  *)
(* for a name without annotation.                                          *)
(***************************************************************************)
ParamNames == {"self", "request", "response", "id", "user", "other"}
HintNames == ParamNames \cup {"return"}
NoHints == [name \in HintNames |-> NoHint]
\* no handler: the placeholder of an absent method
NoHandler == [name |-> "", args |-> <<>>, hints |-> NoHints]

\* _METHOD_NAMES, in the order patch_resource_methods visits them
METHOD_NAMES == <<"on_get", "on_post", "on_put", "on_patch", "on_delete", "on_head",
                  "on_options">>

HTTP_VERBS_WITH_BODIES == {"on_post", "on_put", "on_patch"}

\* The iteration order of a Python set of names is fixed by the hashes of the
\* names in the process: the model has two processes' orders, one the reverse
\* of the other.
NameOrder == <<"self", "request", "response", "id", "user", "other">>
Reverse(q) == [i \in 1..Len(q) |-> q[Len(q) + 1 - i]]
SetOrders == {NameOrder, Reverse(NameOrder)}

\* list(S) of a set S of names under the process's order
Iterate(S, order) == SelectSeq(order, LAMBDA name : name \in S)

SeqToSet(q) == {q[i] : i \in 1..Len(q)}

\* RequestAnnotation.__init__: a Path, Query or Body descriptor
Descriptor(type_, name) ==
    [present |-> TRUE, name |-> name, wrapped_type |-> type_,
     is_usable |-> type_ \notin {AnyT, NoneT}]
\* non_path_parameters.get(...) of a kind that has no parameter: None
NoDescriptor == [present |-> FALSE, name |-> "", wrapped_type |-> NoHint, is_usable |-> FALSE]

HTTPMethodAnnotation(path, query, body, returns) ==
    [path |-> path, query |-> query, body |-> body, returns |-> returns]
NoAnnotation == HTTPMethodAnnotation(<<>>, NoDescriptor, NoDescriptor, NoHint)

\* the outcome of validate_method_signature: the annotation, or the
\* TypeValidationError raised, named after its message
Valid(annotation) == [ok |-> TRUE, err |-> "", annotation |-> annotation]
TypeValidationError(err) == [ok |-> FALSE, err |-> err, annotation |-> NoAnnotation]

\* mutant: the primitives of the decoder are taken as supported too
SupportedClassOrPrimitive(P, type_) ==
    /\ IsClass(type_)
    /\ (type_.k = "model" /\ ProviderOf(type_.n) \in P) \/ type_ \in PRIMITIVE_TYPES
    /\ type_ # AnyT

\* issubclass(type_, parent) for some installed provider, or type_ == type(None);
\* issubclass raises TypeError, reported as unsupported, when type_ is no class
SupportedClass(P, type_) ==
    /\ IsClass(type_)
    /\ (type_.k = "model" /\ ProviderOf(type_.n) \in P) \/ type_ = NoneT
    /\ type_ # AnyT

is_supported_request_type(P, type_) ==
    SupportedClass(P, IF type_.k \in {"Query", "Body"} THEN type_.args[1] ELSE type_)

is_supported_response_type(P, type_) == SupportedClass(P, type_)

type_checker(checker, P, type_) ==
    CASE checker = "request" -> is_supported_request_type(P, type_)
      [] checker = "response" -> is_supported_response_type(P, type_)

RECURSIVE predicate(_, _, _)
predicate(checker, P, type_) ==
    IF origin_of(type_) = "Union"
    THEN \A i \in 1..Len(args_of(type_)) : predicate(checker, P, args_of(type_)[i])
    ELSE type_checker(checker, P, type_)

\* a variant that looks for a provider only once there is a type to check
validate_type_preconditions_typed_only(P, type_, checker) ==
    IF type_ = NoHint THEN ""
    ELSE IF P = {} THEN "NoSchemaProvider"
    ELSE IF ~predicate(checker, P, type_) THEN "UnsupportedType"
    ELSE ""

\* "" when the preconditions hold, else the error raised
validate_type_preconditions(P, type_, checker) ==
    IF P = {} THEN "NoSchemaProvider"
    ELSE IF type_ # NoHint /\ ~predicate(checker, P, type_) THEN "UnsupportedType"
    ELSE ""

\* mutant: of the verbs with bodies only on_post is known
ParameterKindPostOnly(method, hint) ==
    IF hint.k \in {"Query", "Body"} THEN hint.k
    ELSE IF method.name = "on_post" THEN "Body" ELSE "Query"

\* the resolved kind of a non-path parameter
ParameterKind(method, hint) ==
    IF hint.k \in {"Query", "Body"} THEN hint.k
    ELSE IF method.name \in HTTP_VERBS_WITH_BODIES THEN "Body" ELSE "Query"

\* the loop over non_path_parameters_names, names being those left in iteration
\* order and non_path the descriptors found so far, by kind
RECURSIVE non_path_loop(_, _, _, _)
non_path_loop(P, method, names, non_path) ==
    IF names = <<>> THEN [err |-> "", non_path |-> non_path]
    ELSE LET name == Head(names)
             hint == method.hints[name]
             failed == validate_type_preconditions(P, hint, "request")
             parameter_type == ParameterKind(method, hint)
         IN  IF failed # "" THEN [err |-> failed, non_path |-> non_path]
             ELSE IF non_path[parameter_type].present
             THEN [err |-> "AmbiguousParameters", non_path |-> non_path]
             ELSE non_path_loop(P, method, Tail(names),
                      [non_path EXCEPT ![parameter_type] = Descriptor(hint, name)])

non_path_parameters_names(method, path_parameters_names) ==
    SeqToSet(method.args)
        \ (path_parameters_names \cup SeqToSet(SubSeq(method.args, 1, 3)) \cup {"return"})

\* mutant: only a placeholder missing from the signature is rejected
path_parameter_missing_only(method, path_parameters_names) ==
    \E p \in path_parameters_names : p \notin SeqToSet(method.args)

\* the filter over path_parameters_names: some placeholder has the hint Any or
\* is no argument of the handler
path_parameter_rejected(method, path_parameters_names) ==
    \E p \in path_parameters_names :
        \/ (p \in HintNames /\ method.hints[p] = AnyT)
        \/ p \notin SeqToSet(method.args)

\* mutant: the hint of the response parameter is not looked at
leading_parameters_first_only(method) ==
    IF Len(method.args) < 3 THEN "TooFewParameters"
    ELSE IF method.hints[method.args[2]] \notin {RequestT, AnyT, NoHint}
    THEN "FirstParameter"
    ELSE ""

\* the three tests on the leading parameters; hints.get(name, Any) is Any for a
\* name without hint
leading_parameters_error(method) ==
    IF Len(method.args) < 3 THEN "TooFewParameters"
    ELSE IF method.hints[method.args[2]] \notin {RequestT, AnyT, NoHint}
    THEN "FirstParameter"
    ELSE IF method.hints[method.args[3]] \notin {ResponseT, AnyT, NoHint}
    THEN "SecondParameter"
    ELSE ""

validate_method_signature(P, order, method, path_parameters_names) ==
    LET hints == method.hints
        returnCheck == validate_type_preconditions(P, hints["return"], "response")
        typedPath == Iterate({name \in path_parameters_names :
                                 name \in HintNames /\ hints[name] # NoHint}, order)
        path_parameters == [i \in 1..Len(typedPath) |->
                               Descriptor(hints[typedPath[i]], typedPath[i])]
        found == non_path_loop(P, method,
                     Iterate(non_path_parameters_names(method, path_parameters_names), order),
                     [kind \in {"Query", "Body"} |-> NoDescriptor])
    IN  IF returnCheck # "" THEN TypeValidationError(returnCheck)
        ELSE IF path_parameter_rejected(method, path_parameters_names)
        THEN TypeValidationError("PathParameter")
        ELSE IF leading_parameters_error(method) # ""
        THEN TypeValidationError(leading_parameters_error(method))
        ELSE IF found.err # "" THEN TypeValidationError(found.err)
        ELSE Valid(HTTPMethodAnnotation(path_parameters, found.non_path["Query"],
                                        found.non_path["Body"], hints["return"]))

(***************************************************************************)
(* Inputs of decode: the declared types and the raw values of the model.   *)
(***************************************************************************)
RECURSIVE SeqsUpTo(_, _)
SeqsUpTo(S, n) ==
    IF n = 0 THEN {<<>>}
    ELSE LET shorter == SeqsUpTo(S, n - 1)
         IN  shorter \cup {Append(q, x) : q \in shorter, x \in S}

Distinct(q) == \A i, j \in 1..Len(q) : i # j => q[i] # q[j]

\* typing.Union flattens and deduplicates its arguments and keeps a single
\* argument as it is: a union has two or more distinct members, none a union
UnionMembers(P) == {IntT, StrT, NoneT, ListIntT, TypeVarT}
                       \cup (ModelClasses(P) \ {EmptyModel})

UnionTypes(P) == {UnionT(q) : q \in {u \in SeqsUpTo(UnionMembers(P), MaxUnionArity) :
                                        Len(u) >= 2 /\ Distinct(u)}}

DecodeTypes(P) == PRIMITIVE_TYPES \cup ModelClasses(P) \cup {AnyT, TypeVarT, ListIntT}
                      \cup UnionTypes(P)

Strings == {StrV(q) : q \in SeqsUpTo(Alphabet, MaxStrLen)}

Dicts == {DictV(d) : d \in [Keys -> ItemStates]}

\* the instances a model class can have: every declared field holds a valid item
InstancesOf(cls) ==
    {InstV(cls, d) : d \in {e \in [Keys -> ItemStates] :
        \A key \in Keys : IF key \in Fields(cls) /\ ProviderOf(cls) = "pydantic"
                          THEN e[key] \in ValidItems ELSE e[key] = "absent"}}

Instances(P) == UNION {InstancesOf(m.n) : m \in ModelClasses(P)}

RawValues(P) == Strings \cup Dicts \cup Instances(P)
                    \cup {IntV(0), IntV(3), FloatV(35), FloatV(0),
                          BoolV(0), BoolV(1), NoneV}

(***************************************************************************)
(* Inputs of validate_method_signature: handlers and placeholder names.    *)
(***************************************************************************)
ExtraNames == {"id", "user", "other"}
PathNameSets == {{}, {"id"}, {"id", "user"}}
SignatureMethods == {"on_get", "on_post", "on_patch"}

\* hints of the two leading parameters, as pairs
LeadHints == {<<NoHint, NoHint>>, <<RequestT, ResponseT>>, <<AnyT, AnyT>>,
              <<IntT, NoHint>>, <<NoHint, IntT>>, <<ResponseT, RequestT>>}
ParamHints(P) ==
    {NoHint, AnyT, IntT, NoneT}
        \cup (IF "pydantic" \in P
              THEN {UserV1, QueryOf(UserV1), BodyOf(UserV1), UnionT(<<UserV1, NoneT>>)}
              ELSE {})
ReturnHints(P) ==
    {NoHint, NoneT, IntT}
        \cup (IF "pydantic" \in P THEN {UserV1, UnionT(<<UserV1, IntT>>)} ELSE {})

\* the argument lists: the receiver, up to two leading parameters and, after two,
\* up to MaxExtraParams further parameters
ArgLists ==
    {<<"self">>, <<"self", "request">>}
        \cup {<<"self", "request", "response">> \o Iterate(E, NameOrder) :
                 E \in {X \in SUBSET ExtraNames : Cardinality(X) <= MaxExtraParams}}

\* the hints a parameter of args may carry: a name that is no argument has none
HintChoices(args, name, choices) == IF name \in SeqToSet(args) THEN choices ELSE {NoHint}

HintsFor(P, args) ==
    {[name \in HintNames |->
         CASE name = "request" -> (IF name \in SeqToSet(args) THEN lead[1] ELSE NoHint)
           [] name = "response" -> (IF name \in SeqToSet(args) THEN lead[2] ELSE NoHint)
           [] name = "id" -> h1 [] name = "user" -> h2 [] name = "other" -> h3
           [] name = "return" -> ret
           [] OTHER -> NoHint] :
        lead \in LeadHints,
        h1 \in HintChoices(args, "id", ParamHints(P)),
        h2 \in HintChoices(args, "user", ParamHints(P)),
        h3 \in HintChoices(args, "other", ParamHints(P)),
        ret \in ReturnHints(P)}

Handlers(P) ==
    UNION {{[name |-> name, args |-> args, hints |-> h] :
               name \in SignatureMethods, h \in HintsFor(P, args)} : args \in ArgLists}

(***************************************************************************)
(* base/resource.py, base/utils.py, base/wrapper.py: resources and the     *)
(* patching of their methods when a route is added.                        *)
(*                                                                         *)
(* A resource object is [typed, methods, annotations,                      *)
(* methods_body_parameters]: whether its class derives from TypedResource, *)
(* its attributes on_*, its attribute _annotations and its attribute       *)
(* methods_body_parameters, which TypedResource does not define.           *)
(***************************************************************************)
MethodSet == SeqToSet(METHOD_NAMES)

Method(name, args, hints) == [name |-> name, args |-> args, hints |-> hints]

\* an attribute on_* of a resource object: the method of the class or, once
\* wrapped, the function curried of resource_method_wrapper around it
Attribute(method) == [defined |-> TRUE, wrapped |-> FALSE, method |-> method]
NoAttribute == [defined |-> FALSE, wrapped |-> FALSE, method |-> NoHandler]

\* a variant in which the signature of a wrapper is that of the method it wraps
Callable_follows_wrapped(attribute) == attribute.method

\* what inspect.getfullargspec and get_type_hints see of an attribute:
\* functools.wraps copies __name__ and __annotations__ to curried, whose own
\* arguments are request and response (and **kwargs, no entry of args)
Callable(attribute) ==
    IF attribute.wrapped
    THEN Method(attribute.method.name, <<"request", "response">>, attribute.method.hints)
    ELSE attribute.method

\* the attribute _annotations: unset until _init_annotations runs
Entry(annotation) == [present |-> TRUE, annotation |-> annotation]
NoEntry == [present |-> FALSE, annotation |-> NoAnnotation]
NoAnnotations == [set |-> FALSE, of |-> [m \in MethodSet |-> NoEntry]]

init_annotations(resource) ==
    [resource EXCEPT !.annotations = [set |-> TRUE, of |-> [m \in MethodSet |-> NoEntry]]]

set_method_annotations(resource, method, annotations) ==
    [resource EXCEPT !.annotations.of[method] = Entry(annotations)]

\* an attribute that is a dict from method names to a parameter name ("" for
\* None): no class of the repository defines one
NoAttributeDict == [defined |-> FALSE, of |-> [m \in MethodSet |-> ""]]

Resource(typed, methods) ==
    [typed |-> typed,
     methods |-> [m \in MethodSet |-> IF m \in DOMAIN methods THEN Attribute(methods[m])
                                      ELSE NoAttribute],
     annotations |-> NoAnnotations,
     methods_body_parameters |-> NoAttributeDict]

\* the resource classes of the model, one object of each: the two resources of
\* example/api.py, two of the resources of tests/test_marshmallow.py (the field
\* of the route named id, the payload parameter named user, AnotherModel left
\* out of the return type) and a resource that is no TypedResource
UserResource ==
    Resource(TRUE, [m \in {"on_post"} |->
        Method("on_post", <<"self", "request", "response", "user">>,
               [NoHints EXCEPT !["user"] = UnionT(<<UserV2, UserV1>>),
                               !["return"] = UnionT(<<UserV2, UserV1>>)])])

UserDetailsResource ==
    Resource(TRUE, [m \in {"on_get"} |->
        Method("on_get", <<"self", "request", "response", "id">>,
               [NoHints EXCEPT !["id"] = IntT,
                               !["return"] = UnionT(<<UserV2, UserV1, NoneT>>)])])

ValidResourceWithQueryParameter1 ==
    Resource(TRUE, [m \in {"on_post"} |->
        Method("on_post", <<"self", "request", "response", "id">>, NoHints)])

ValidResourceWithQueryParameter10 ==
    Resource(TRUE, [m \in {"on_post"} |->
        Method("on_post", <<"self", "request", "response", "user", "id">>,
               [NoHints EXCEPT !["user"] = Model, !["id"] = IntT,
                               !["return"] = UnionT(<<NoneT, Model>>)])])

\* a resource with two handlers: on_post as ValidResourceWithQueryParameter6 of
\* tests.py declares it, the model a pydantic one, and beside it an on_get that
\* leaves its parameter without annotation, as ValidResourceWithQueryParameter1
\* of TestValidation does
UserItemResource ==
    Resource(TRUE, [m \in {"on_get", "on_post"} |->
        IF m = "on_get"
        THEN Method("on_get", <<"self", "request", "response", "id">>,
                    [NoHints EXCEPT !["return"] = UserV1])
        ELSE Method("on_post", <<"self", "request", "response", "user", "id">>,
                    [NoHints EXCEPT !["user"] = UserV1, !["id"] = IntT,
                                    !["return"] = UserV1])])

\* a resource whose class does not derive from TypedResource
PlainResource ==
    Resource(FALSE, [m \in {"on_get"} |->
        Method("on_get", <<"self", "request", "response", "id">>, NoHints)])

ResourceIds == {"UserResource", "UserDetailsResource", "ValidResourceWithQueryParameter1",
                "ValidResourceWithQueryParameter10", "UserItemResource", "PlainResource"}

ResourceObjects ==
    [r \in ResourceIds |->
        CASE r = "UserResource" -> UserResource
          [] r = "UserDetailsResource" -> UserDetailsResource
          [] r = "ValidResourceWithQueryParameter1" -> ValidResourceWithQueryParameter1
          [] r = "ValidResourceWithQueryParameter10" -> ValidResourceWithQueryParameter10
          [] r = "UserItemResource" -> UserItemResource
          [] r = "PlainResource" -> PlainResource]

\* the URI templates of the model and the field names _FIELD_PATTERN finds in them
Templates == {"/users", "/users/{id}"}
path_parameters(uri_template) == IF uri_template = "/users/{id}" THEN {"id"} ELSE {}

\* the loop of patch_resource_methods from the i-th name of _METHOD_NAMES on:
\* the resource as the loop leaves it and the TypeValidationError raised, if any
\* (every attribute on_* of the model is callable)
RECURSIVE patch_loop(_, _, _, _, _)
patch_loop(P, order, path, resource, i) ==
    IF i > Len(METHOD_NAMES) THEN [ok |-> TRUE, err |-> "", resource |-> resource]
    ELSE LET method_name == METHOD_NAMES[i]
             method == resource.methods[method_name]
             result == validate_method_signature(P, order, Callable(method), path)
         IN  IF ~method.defined THEN patch_loop(P, order, path, resource, i + 1)
             ELSE IF ~result.ok
             THEN [ok |-> FALSE, err |-> result.err, resource |-> resource]
             ELSE patch_loop(P, order, path,
                      [set_method_annotations(init_annotations(resource), method_name,
                                              result.annotation)
                          EXCEPT !.methods[method_name].wrapped = TRUE],
                      i + 1)

patch_resource_methods(P, order, uri_template, resource) ==
    patch_loop(P, order, path_parameters(uri_template), resource, 1)

(***************************************************************************)
(* middleware/typing_.py: the hooks of TypingMiddleware.                   *)
(*                                                                         *)
(* The outcome of a hook is [status, error, ...]: status "" when the hook  *)
(* returns, "422" when it raises falcon.HTTPError (unprocessable entity),  *)
(* "error" when another exception, named by error, escapes it.             *)
(***************************************************************************)
\* the dict of the fields of the matched template: names in insertion order
Parameters(names, values) == [names |-> names, values |-> values]
NoValues == [name \in ExtraNames |-> NoneV]

\* the tests of _decode_or_raise_error on the result of decode
raise_error(result) ==
    IF result.tag = "raise"
    THEN [status |-> "error", error |-> result.exc, value |-> NoneV]
    ELSE IF result.tag = "err"
    THEN IF result.reason = "ExternalSerializerException"
         THEN [status |-> "error", error |-> result.exc, value |-> NoneV]
         ELSE [status |-> "422", error |-> "HTTPError", value |-> NoneV]
    ELSE [status |-> "", error |-> "", value |-> result.val]

decode_or_raise_error(P, hint, parameter) == raise_error(decode(P, hint, parameter))

\* the loop `for parameter in parameters`; hints[parameter] is a KeyError for a
\* name without annotation, and the decoded value replaces the text
RECURSIVE decode_parameters(_, _, _, _)
store_parameter(P, hints, names, parameters, decoded) ==
    IF decoded.status # ""
    THEN [status |-> decoded.status, error |-> decoded.error, parameters |-> parameters]
    ELSE decode_parameters(P, hints, Tail(names),
             [parameters EXCEPT !.values[Head(names)] = decoded.value])

decode_parameters(P, hints, names, parameters) ==
    IF names = <<>> THEN [status |-> "", error |-> "", parameters |-> parameters]
    ELSE IF hints[Head(names)] = NoHint
    THEN [status |-> "error", error |-> "KeyError", parameters |-> parameters]
    ELSE store_parameter(P, hints, names, parameters,
             decode_or_raise_error(P, hints[Head(names)],
                                   parameters.values[Head(names)]))

\* parameters[body_parameter] = the decoded payload
store_body(parameters, body_parameter, decoded) ==
    IF decoded.status # ""
    THEN [status |-> decoded.status, error |-> decoded.error, parameters |-> parameters]
    ELSE [status |-> "", error |-> "",
          parameters |-> Parameters(
              IF body_parameter \in SeqToSet(parameters.names) THEN parameters.names
              ELSE Append(parameters.names, body_parameter),
              [parameters.values EXCEPT ![body_parameter] = decoded.value])]

\* the body step: resource.methods_body_parameters[handler.__name__] is an
\* AttributeError on a resource without that attribute
decode_body(P, resource, handler, request, parameters) ==
    IF ~resource.methods_body_parameters.defined
    THEN [status |-> "error", error |-> "AttributeError", parameters |-> parameters]
    ELSE IF resource.methods_body_parameters.of[handler.name] = ""
    THEN [status |-> "", error |-> "", parameters |-> parameters]
    ELSE IF handler.hints[resource.methods_body_parameters.of[handler.name]] = NoHint
    THEN [status |-> "error", error |-> "KeyError", parameters |-> parameters]
    ELSE store_body(parameters, resource.methods_body_parameters.of[handler.name],
             decode_or_raise_error(P,
                 handler.hints[resource.methods_body_parameters.of[handler.name]],
                 request.media))

\* the steps of process_resource after the parameters of the path
after_parameters(P, resource, handler, request, decoded) ==
    IF decoded.status # "" THEN decoded
    ELSE decode_body(P, resource, handler, request, decoded.parameters)

process_resource(P, resource, request) ==
    IF ~resource.typed \/ ~resource.methods[request.method].defined
    THEN [status |-> "", error |-> "", parameters |-> request.parameters]
    ELSE after_parameters(P, resource, Callable(resource.methods[request.method]), request,
             decode_parameters(P, Callable(resource.methods[request.method]).hints,
                               request.parameters.names, request.parameters))

\* isinstance(media, type_) for some type_ of schema_providers | {dict}
IsValidResponse(P, media) ==
    media.t = "dict" \/ (media.t = "instance" /\ ProviderOf(media.cls) \in P)

\* the serialization of a decoded return value: a dict as it is, media.dict() of
\* a pydantic model, hint().dump(media) of a marshmallow schema, where hint() is a
\* TypeError unless hint is a class
serialize(hint, media) ==
    IF media.t = "dict" THEN [status |-> "", error |-> "", media |-> media]
    ELSE IF ProviderOf(media.cls) = "pydantic"
    THEN [status |-> "", error |-> "", media |-> Dump(media)]
    ELSE IF hint.k = "model"
    THEN [status |-> "", error |-> "", media |-> DictV(NoItems)]
    ELSE [status |-> "error", error |-> "TypeValidationError", media |-> media]

\* a variant of check_response that answers a decoding failure of the returned
\* value with an HTTP client error
check_response_client_error(P, hint, request, media) ==
    IF media.tag = "raise"
    THEN [status |-> "error", error |-> media.exc, media |-> request.response_media]
    ELSE IF media.tag = "err"
    THEN [status |-> "422", error |-> "HTTPError", media |-> request.response_media]
    ELSE IF media.val = NoneV
    THEN [status |-> "", error |-> "", media |-> request.response_media]
    ELSE IF ~IsValidResponse(P, media.val)
    THEN [status |-> "error", error |-> "TypeValidationError",
          media |-> request.response_media]
    ELSE serialize(hint, media.val)

\* the steps of process_response on media, the decoded response.media
check_response(P, hint, request, media) ==
    IF media.tag = "raise"
    THEN [status |-> "error", error |-> media.exc, media |-> request.response_media]
    ELSE IF media.tag = "err"
    THEN [status |-> "error", error |-> "TypeValidationError",
          media |-> request.response_media]
    ELSE IF media.val = NoneV
    THEN [status |-> "", error |-> "", media |-> request.response_media]
    ELSE IF ~IsValidResponse(P, media.val)
    THEN [status |-> "error", error |-> "TypeValidationError",
          media |-> request.response_media]
    ELSE serialize(hint, media.val)

\* get_type_hints(handler)['return'] is a KeyError for a handler that declares
\* no return type
process_response(P, resource, request) ==
    LET hint == Callable(resource.methods[request.method]).hints["return"]
    IN  IF ~(resource.typed /\ request.succeeded)
        THEN [status |-> "", error |-> "", media |-> request.response_media]
        ELSE IF ~resource.methods[request.method].defined
        THEN [status |-> "", error |-> "", media |-> request.response_media]
        ELSE IF hint = NoHint
        THEN [status |-> "error", error |-> "KeyError", media |-> request.response_media]
        ELSE check_response(P, hint, request, decode(P, hint, request.response_media))

\* the application before any route is added and any request arrives
NoRoutes == [t \in Templates |-> ""]

NoRegistration == [pc |-> "idle", uri_template |-> "", resource |-> "", ok |-> TRUE,
                   err |-> ""]

\* the body of a handler as a run of it shows it: whether it assigns
\* response.media, the value it assigns, and the value it returns
HandlerBody(assigns, assigned, returned) ==
    [assigns |-> assigns, assigned |-> assigned, returned |-> returned]
NoBody == HandlerBody(FALSE, NoneV, NoneV)

\* a variant of curried that stores whatever the method returns
curried_stores_any(before, body) == body.returned

\* curried of resource_method_wrapper: media = method(request, response, **kwargs),
\* during which the method may assign response.media itself, then
\* `if media: response.media = media`; the result is response.media after the call
curried(before, body) ==
    IF Truthy(body.returned) THEN body.returned
    ELSE IF body.assigns THEN body.assigned ELSE before

\* the method called as it is, its return value dropped
uncurried(before, body) == IF body.assigns THEN body.assigned ELSE before

NoRequest ==
    [pc |-> "idle", uri_template |-> "", resource |-> "", method |-> "",
     fields |-> NoValues, parameters |-> Parameters(<<>>, NoValues), media |-> NoneV,
     status |-> "", error |-> "", invoked |-> FALSE, succeeded |-> FALSE,
     response_media |-> NoneV, before |-> NoneV, body |-> NoBody]

(***************************************************************************)
(* State: the providers installed in the process, and the call of decode   *)
(* under observation.                                                      *)
(***************************************************************************)
NoCall == [pc |-> "idle", type |-> NoneT, json |-> NoneV, result |-> Decoded(NoneV)]

NoValidation == [pc |-> "idle", method |-> NoHandler, path |-> {},
                 result |-> TypeValidationError("")]

ProviderSets == {AllProviders, {}}

InitDecode ==
    /\ providers \in ProviderSets
    /\ setOrder = NameOrder
    /\ dec = NoCall
    /\ val = NoValidation
    /\ resources = ResourceObjects
    /\ routes = NoRoutes
    /\ reg = NoRegistration
    /\ req = NoRequest

\* one call decode(type_, json)
DecodeCall ==
    /\ dec.pc = "idle"
    /\ \E type_ \in DecodeTypes(providers), json \in RawValues(providers) :
          dec' = [pc |-> "done", type |-> type_, json |-> json,
                  result |-> decode(providers, type_, json)]
    /\ UNCHANGED <<providers, setOrder, val, resources, routes, reg, req>>

NextDecode == DecodeCall

SpecDecode == InitDecode /\ [][NextDecode]_vars

InitValidate ==
    /\ providers \in ProviderSets
    /\ setOrder \in SetOrders
    /\ dec = NoCall
    /\ val = NoValidation
    /\ resources = ResourceObjects
    /\ routes = NoRoutes
    /\ reg = NoRegistration
    /\ req = NoRequest

\* one call validate_method_signature(method, path_parameters_names)
ValidateCall ==
    /\ val.pc = "idle"
    /\ \E method \in Handlers(providers), path \in PathNameSets :
          val' = [pc |-> "done", method |-> method, path |-> path,
                  result |-> validate_method_signature(providers, setOrder, method, path)]
    /\ UNCHANGED <<providers, setOrder, dec, resources, routes, reg, req>>

NextValidate == ValidateCall

SpecValidate == InitValidate /\ [][NextValidate]_vars

(***************************************************************************)
(* The application: a TypedAPI with its TypingMiddleware, the resource     *)
(* objects, the routes added so far and the request in flight. Routes are  *)
(* added before the application serves, requests are served one at a time; *)
(* a request changes neither the resources nor the routes.                 *)
(*   resources : the resource objects, by name;                            *)
(*   routes    : the resource added under each URI template ("" for none); *)
(*   reg       : the call of add_route that returned last, its outcome;    *)
(*   req       : the request in flight, its position pc in the life cycle  *)
(*               routed -> resource / failed -> responded -> done.         *)
(***************************************************************************)
\* 'on_%s' % request.method.lower() of the requests of the model
RequestMethods == {"on_get", "on_post"}
\* the text of a path field, the parsed payload of a request
PathValues == {StrV(<<"3">>), StrV(<<"a">>)}
Medias == {DictV(NoItems), DictV([NoItems EXCEPT !["username"] = "a"]),
           DictV([NoItems EXCEPT !["field"] = "a"]),
           DictV([NoItems EXCEPT !["field"] = "invalid"])}
\* what the body of a handler returns
HandlerReturns == {NoneV, DictV([NoItems EXCEPT !["username"] = "a"]),
                   InstV("UserV1", [NoItems EXCEPT !["username"] = "a"])}

Init ==
    /\ providers \in ProviderSets
    /\ setOrder \in SetOrders
    /\ dec = NoCall
    /\ val = NoValidation
    /\ resources = ResourceObjects
    /\ routes = NoRoutes
    /\ reg = NoRegistration
    /\ req = NoRequest

\* a variant of add_route that hands the route to falcon whatever the patching
\* raised
AddRouteAlways(uri_template, r) ==
    /\ req.pc = "idle"
    /\ LET patched == IF resources[r].typed
                      THEN patch_resource_methods(providers, setOrder, uri_template,
                                                  resources[r])
                      ELSE [ok |-> TRUE, err |-> "", resource |-> resources[r]]
       IN  /\ resources' = [resources EXCEPT ![r] = patched.resource]
           /\ routes' = [routes EXCEPT ![uri_template] = r]
           /\ reg' = [pc |-> "done", uri_template |-> uri_template, resource |-> r,
                      ok |-> patched.ok, err |-> patched.err]
    /\ UNCHANGED <<providers, setOrder, dec, val, req>>

\* TypedAPI.add_route(uri_template, resource): a TypeValidationError of the
\* patching escapes before falcon adds the route
AddRoute(uri_template, r) ==
    /\ req.pc = "idle"
    /\ LET patched == IF resources[r].typed
                      THEN patch_resource_methods(providers, setOrder, uri_template,
                                                  resources[r])
                      ELSE [ok |-> TRUE, err |-> "", resource |-> resources[r]]
       IN  /\ resources' = [resources EXCEPT ![r] = patched.resource]
           /\ routes' = IF patched.ok THEN [routes EXCEPT ![uri_template] = r] ELSE routes
           /\ reg' = [pc |-> "done", uri_template |-> uri_template, resource |-> r,
                      ok |-> patched.ok, err |-> patched.err]
    /\ UNCHANGED <<providers, setOrder, dec, val, req>>

\* a request arrives and falcon routes it: process_request does nothing, the
\* fields of the matched template become the parameters
Receive(uri_template, method, value, media) ==
    /\ req.pc \in {"idle", "done"}
    /\ routes[uri_template] # ""
    /\ LET fields == [name \in ExtraNames |->
                         IF name \in path_parameters(uri_template) THEN value ELSE NoneV]
       IN  req' = [NoRequest EXCEPT
                      !.pc = "routed", !.uri_template = uri_template,
                      !.resource = routes[uri_template], !.method = method,
                      !.fields = fields,
                      !.parameters = Parameters(Iterate(path_parameters(uri_template),
                                                        NameOrder), fields),
                      !.media = media]
    /\ reg' = NoRegistration
    /\ UNCHANGED <<providers, setOrder, dec, val, resources, routes>>

\* the request after the hook process_resource of the middleware has run for it;
\* falcon answers an HTTPError with its status and lets any other exception escape
after_process_resource(request, outcome) ==
    [request EXCEPT !.pc = IF outcome.status = "" THEN "resource" ELSE "failed",
                    !.status = outcome.status, !.error = outcome.error,
                    !.parameters = outcome.parameters]

ProcessResource ==
    /\ req.pc = "routed"
    /\ req' = after_process_resource(req,
                  process_resource(providers, resources[req.resource], req))
    /\ UNCHANGED <<providers, setOrder, dec, val, resources, routes, reg>>

\* the request after falcon has called the responder with the parameters as
\* keyword arguments: the attribute on_* of the resource (curried, once wrapped,
\* which calls the method and stores a truthy return value in response.media), or
\* falcon's own responder for a method the resource lacks; body is what the
\* method does in this run
after_responder(responder, request, body) ==
    IF ~responder.defined
    THEN [request EXCEPT !.pc = "responded", !.status = "405",
                         !.error = "HTTPMethodNotAllowed"]
    ELSE IF SeqToSet(request.parameters.names)
                # {responder.method.args[i] : i \in 4..Len(responder.method.args)}
    THEN [request EXCEPT !.pc = "responded", !.status = "error", !.error = "TypeError"]
    ELSE [request EXCEPT !.pc = "responded", !.status = "200",
                         !.invoked = TRUE, !.succeeded = TRUE,
                         !.before = request.response_media, !.body = body,
                         !.response_media =
                             IF responder.wrapped
                             THEN curried(request.response_media, body)
                             ELSE uncurried(request.response_media, body)]

Responder(body) ==
    /\ req.pc = "resource"
    /\ req' = after_responder(resources[req.resource].methods[req.method], req, body)
    /\ UNCHANGED <<providers, setOrder, dec, val, resources, routes, reg>>

\* a run of a handler that leaves response.media alone and returns a value
Respond(returned) == Responder(HandlerBody(FALSE, NoneV, returned))

\* the request after the hook process_response of the middleware, which falcon
\* calls whether the request succeeded or not
after_process_response(request, outcome) ==
    [request EXCEPT !.pc = "done",
                    !.status = IF outcome.status = "" THEN @ ELSE outcome.status,
                    !.error = IF outcome.status = "" THEN @ ELSE outcome.error,
                    !.response_media = outcome.media]

ProcessResponse ==
    /\ req.pc \in {"failed", "responded"}
    /\ req' = after_process_response(req,
                  process_response(providers, resources[req.resource], req))
    /\ UNCHANGED <<providers, setOrder, dec, val, resources, routes, reg>>

Next ==
    \/ \E uri_template \in Templates, r \in ResourceIds : AddRoute(uri_template, r)
    \/ \E uri_template \in Templates, method \in RequestMethods, value \in PathValues,
          media \in Medias : Receive(uri_template, method, value, media)
    \/ ProcessResource
    \/ \E returned \in HandlerReturns : Respond(returned)
    \/ ProcessResponse

Spec == Init /\ [][Next]_vars

(***************************************************************************)
(* Claims about decode, checked under SpecDecode.                          *)
(***************************************************************************)
IsTypeMismatch(r) == r.tag = "err" /\ r.reason = "TypeMismatch"

\* C1: for every primitive type T of {str, float, int, bool, NoneType} and every
\* raw value whose runtime type is exactly T, decode(T, v) succeeds and returns v
\* unchanged.
C1_PrimitivePassThrough ==
    (dec.pc = "done" /\ dec.type \in PRIMITIVE_TYPES /\ dec.json.t = dec.type.n)
        => (dec.result.tag = "ok" /\ dec.result.val = dec.json)

C1_Witness ==
    /\ dec.pc = "done" /\ dec.type = StrT /\ dec.json = StrV(<<"3">>)
    /\ dec.result.tag = "ok" /\ dec.result.val = StrV(<<"3">>)

\* str(n) of a Python int, as characters
DigitChar(n) ==
    CASE n = 0 -> "0" [] n = 1 -> "1" [] n = 2 -> "2" [] n = 3 -> "3" [] n = 4 -> "4"
      [] n = 5 -> "5" [] n = 6 -> "6" [] n = 7 -> "7" [] n = 8 -> "8" [] n = 9 -> "9"

RECURSIVE IntStr(_)
IntStr(n) ==
    IF n < 0 THEN <<"-">> \o IntStr(-n)
    ELSE IF n < 10 THEN <<DigitChar(n)>>
    ELSE IntStr(n \div 10) \o <<DigitChar(n % 10)>>

AllDigits(q) == \A i \in 1..Len(q) : q[i] \in Digits
Unsigned(s) == IF Len(s) > 0 /\ s[1] = "-" THEN Tail(s) ELSE s
\* an integer literal: an optional sign and one or more digits
IsIntLiteral(s) == Len(Unsigned(s)) >= 1 /\ AllDigits(Unsigned(s))
\* the literal Python prints for its value: no leading zero, no "-0"
IsCanonicalInt(s) ==
    /\ IsIntLiteral(s)
    /\ (Len(Unsigned(s)) = 1 \/ Unsigned(s)[1] # "0")
    /\ s # <<"-", "0">>
\* a decimal literal: digits around exactly one point, at least one digit
IsDecimalAt(s, p) ==
    LET b == Unsigned(s)
    IN  /\ p \in 1..Len(b) /\ b[p] = "." /\ Len(b) >= 2
        /\ AllDigits(SubSeq(b, 1, p - 1)) /\ AllDigits(SubSeq(b, p + 1, Len(b)))
IsDecimal(s) == \E p \in 1..Len(s) : IsDecimalAt(s, p)
HasFraction(s) ==
    \E p \in 1..Len(s) : /\ IsDecimalAt(s, p)
                         /\ \E i \in (p + 1)..Len(Unsigned(s)) : Unsigned(s)[i] # "0"
\* the characters before the point of a decimal literal, sign included
IntegerPart(s) == SubSeq(s, 1, (CHOOSE i \in 1..Len(s) : s[i] = ".") - 1)

\* C2: decode(int, s) for a string s returns the integer n when s parses as a
\* number with no fractional part ("3" gives 3, "3.0" gives 3), and a TypeMismatch
\* failure when s parses to a number with a fractional part ("3.5") or does not
\* parse as a number ("abc"); it returns no other failure reason and never raises.
C2_IntFromString ==
    (dec.pc = "done" /\ dec.type = IntT /\ dec.json.t = "str") =>
        LET s == dec.json.s
            r == dec.result
        IN  /\ (r.tag = "ok" /\ r.val.t = "int") \/ IsTypeMismatch(r)
            /\ IsCanonicalInt(s) => (r.tag = "ok" /\ IntStr(r.val.n) = s)
            /\ IsIntLiteral(s) => r.tag = "ok"
            /\ (IsDecimal(s) /\ ~HasFraction(s)) => r.tag = "ok"
            /\ (IsDecimal(s) /\ ~HasFraction(s) /\ IsCanonicalInt(IntegerPart(s)))
                   => IntStr(r.val.n) = IntegerPart(s)
            /\ HasFraction(s) => IsTypeMismatch(r)
            /\ (~IsIntLiteral(s) /\ ~IsDecimal(s)) => IsTypeMismatch(r)

C2_Witness ==
    /\ dec.pc = "done" /\ dec.type = IntT /\ dec.json = StrV(<<"3", ".", "0">>)
    /\ dec.result.tag = "ok" /\ dec.result.val = IntV(3)

\* the provider constructions made while members 1..i of a union are tried in order
RECURSIVE MemberLogs(_, _, _, _)
MemberLogs(P, args, i, json) ==
    IF i = 0 THEN <<>>
    ELSE MemberLogs(P, args, i - 1, json) \o decode(P, args[i], json).log

\* member i is the first member of the union whose decoding is no failure
FirstNonFailure(P, args, i, json) ==
    /\ decode(P, args[i], json).tag # "err"
    /\ \A j \in 1..(i - 1) : decode(P, args[j], json).tag = "err"

\* C3 as stated: for a union type, decode tries the members in declaration order
\* and returns the result of the first member that decodes without failure.
C3_Original ==
    (dec.pc = "done" /\ dec.type.k = "union") =>
        \A i \in 1..Len(dec.type.args) :
            (/\ decode(providers, dec.type.args[i], dec.json).tag = "ok"
             /\ \A j \in 1..(i - 1) :
                    decode(providers, dec.type.args[j], dec.json).tag = "err")
                => /\ dec.result.tag = "ok"
                   /\ dec.result.val = decode(providers, dec.type.args[i], dec.json).val

\* C3 amended: for a union type none of whose members is a type variable, the
\* outcome of decode is the outcome of the first member, in declaration order,
\* whose decoding is no failure; the members after it are never tried (no
\* provider constructs anything for them).
C3_UnionFirstSuccess ==
    (dec.pc = "done" /\ dec.type.k = "union"
        /\ \A i \in 1..Len(dec.type.args) : dec.type.args[i].k # "typevar") =>
        \A i \in 1..Len(dec.type.args) :
            FirstNonFailure(providers, dec.type.args, i, dec.json)
                => LET member == decode(providers, dec.type.args[i], dec.json)
                   IN  /\ dec.result.tag = member.tag
                       /\ dec.result.val = member.val
                       /\ dec.result.exc = member.exc
                       /\ dec.result.log
                              = MemberLogs(providers, dec.type.args, i, dec.json)

C3_Witness ==
    /\ dec.pc = "done" /\ dec.type = UnionT(<<UserV1, UserV2>>)
    /\ dec.json = DictV([NoItems EXCEPT !["username"] = "a", !["balance"] = "b"])
    /\ dec.result.tag = "ok" /\ dec.result.val.cls = "UserV1"
    /\ dec.result.log = <<"UserV1">>

\* C4: for every model-shaped type M and every empty or absent raw value (None,
\* an empty mapping, any other falsy value) that is no instance of M, decode(M, raw)
\* is a TypeMismatch failure and the provider constructs nothing; and
\* decode(Union[M, None], {}) is a TypeMismatch failure.
C4_EmptyAgainstModel ==
    /\ (dec.pc = "done" /\ dec.type.k = "model" /\ ~Truthy(dec.json)
            /\ ~IsInstance(dec.json, dec.type))
           => (IsTypeMismatch(dec.result) /\ dec.result.log = <<>>)
    /\ (dec.pc = "done" /\ dec.type.k = "union" /\ Len(dec.type.args) = 2
            /\ dec.type.args[1].k = "model" /\ dec.type.args[2] = NoneT
            /\ dec.json = DictV(NoItems))
           => (IsTypeMismatch(dec.result) /\ dec.result.log = <<>>)

C4_Witness ==
    /\ dec.pc = "done" /\ dec.type = UnionT(<<UserV1, NoneT>>)
    /\ dec.json = DictV(NoItems) /\ IsTypeMismatch(dec.result)

\* C5 as stated: for every instance m of a registered model type M,
\* decode(M, dump(m)) succeeds and yields a model equal to m in attribute content,
\* also when the dumped mapping is empty.
C5_Original ==
    (dec.pc = "done" /\ dec.type.k = "model" /\ ProviderOf(dec.type.n) = "pydantic") =>
        \A m \in InstancesOf(dec.type.n) :
            dec.json = Dump(m) => (dec.result.tag = "ok" /\ dec.result.val = m)

\* C5 amended: for every instance m of a registered model type M whose dumped
\* mapping is not empty, decode(M, dump(m)) succeeds and yields a model equal to m
\* in attribute content (for marshmallow, whose loaded values are plain mappings,
\* the mapping itself).
C5_RoundTripNonEmpty ==
    /\ (dec.pc = "done" /\ dec.type.k = "model" /\ ProviderOf(dec.type.n) = "pydantic") =>
           \A m \in InstancesOf(dec.type.n) :
               (dec.json = Dump(m) /\ Truthy(Dump(m)))
                   => (dec.result.tag = "ok" /\ dec.result.val = m)
    /\ (dec.pc = "done" /\ dec.type.k = "model" /\ ProviderOf(dec.type.n) = "marshmallow"
            /\ dec.json.t = "dict" /\ Truthy(dec.json)
            /\ \A key \in Keys : IF key \in Fields(dec.type.n)
                                 THEN dec.json.d[key] # "invalid"
                                 ELSE dec.json.d[key] = "absent")
           => (dec.result.tag = "ok" /\ dec.result.val = dec.json)

C5_Witness ==
    /\ dec.pc = "done" /\ dec.type = UserV2
    /\ dec.json = DictV([NoItems EXCEPT !["username"] = "a", !["balance"] = "b"])
    /\ dec.result.tag = "ok"
    /\ dec.result.val = InstV("UserV2", [NoItems EXCEPT !["username"] = "a",
                                                        !["balance"] = "b"])

(***************************************************************************)
(* Claims about validate_method_signature, checked under SpecValidate.     *)
(***************************************************************************)
Arguments == SeqToSet(val.method.args)
HintOf(name) == val.method.hints[name]

\* the parameters after the receiver and the two leading ones that are no
\* placeholders of the route
NonPathParameters == {val.method.args[i] : i \in 4..Len(val.method.args)} \ val.path

\* some placeholder is no declared parameter, or is declared with type Any
PlaceholderViolation == \E p \in val.path : p \notin Arguments \/ HintOf(p) = AnyT

\* C6: registering a route fails with TypeValidationError whenever some
\* placeholder of the route pattern is no declared parameter of the handler or is
\* declared with type Any; when every placeholder is a declared parameter with a
\* non-Any type, the path-parameter rule does not reject the handler.
C6_PathParameterRule ==
    val.pc = "done" =>
        /\ PlaceholderViolation => ~val.result.ok
        /\ ~PlaceholderViolation => val.result.err # "PathParameter"

C6_Witness ==
    /\ val.pc = "done" /\ val.path = {"id"} /\ "id" \in Arguments /\ HintOf("id") = AnyT
    /\ ~val.result.ok /\ val.result.err = "PathParameter"

\* the kind a non-path parameter resolves to, as the claim states it
ResolvedKind(name) ==
    CASE HintOf(name).k = "Query" -> "Query"
      [] HintOf(name).k = "Body" -> "Body"
      [] val.method.name \in {"on_post", "on_put", "on_patch"} -> "Body"
      [] OTHER -> "Query"

SameKindPair ==
    \E a, b \in NonPathParameters : a # b /\ ResolvedKind(a) = ResolvedKind(b)

\* C7: each non-path parameter resolves to one kind, that of its Query/Body
\* wrapper if it has one, else Body for on_post/on_put/on_patch and Query for any
\* other method. Validation fails whenever two non-path parameters resolve to the
\* same kind, typed or not; the rule rejects a handler only then; and an accepted
\* handler's annotation holds, per kind, the one parameter that resolves to it.
C7_OneParameterPerKind ==
    (val.pc = "done" /\ Len(val.method.args) >= 3) =>
        /\ SameKindPair => ~val.result.ok
        /\ val.result.err = "AmbiguousParameters" => SameKindPair
        /\ val.result.ok =>
               /\ \A name \in NonPathParameters :
                      LET d == IF ResolvedKind(name) = "Query"
                               THEN val.result.annotation.query
                               ELSE val.result.annotation.body
                      IN  d.present /\ d.name = name
               /\ val.result.annotation.query.present
                      => \E name \in NonPathParameters : ResolvedKind(name) = "Query"
               /\ val.result.annotation.body.present
                      => \E name \in NonPathParameters : ResolvedKind(name) = "Body"

C7_Witness ==
    /\ val.pc = "done" /\ val.method.name = "on_post" /\ val.path = {}
    /\ NonPathParameters = {"id", "user"}
    /\ HintOf("id") = NoHint /\ HintOf("user") = NoHint
    /\ val.result.err = "AmbiguousParameters"

IsPrimitiveHint(type_) == type_ \in PRIMITIVE_TYPES \ {NoneT}
IsModelOrNull(type_) == type_.k = "model" \/ type_ = NoneT
\* a model-shaped type, the null type, or a union made only of those
IsAcceptedType(type_) ==
    \/ IsModelOrNull(type_)
    \/ (type_.k = "union" /\ \A i \in 1..Len(type_.args) : IsModelOrNull(type_.args[i]))
\* the type a parameter declares, under its Query/Body marker if it has one
Unwrapped(type_) == IF type_.k \in {"Query", "Body"} THEN type_.args[1] ELSE type_

\* C8: validation rejects every handler whose declared return type is a primitive
\* such as int, and every handler with a non-path parameter declared as a
\* primitive; in these positions an accepted handler declares only model-shaped
\* types, the null type and unions of those (or nothing).
C8_PrimitivesRejected ==
    val.pc = "done" =>
        /\ IsPrimitiveHint(HintOf("return")) => ~val.result.ok
        /\ (Len(val.method.args) >= 3
                /\ \E name \in NonPathParameters : IsPrimitiveHint(Unwrapped(HintOf(name))))
               => ~val.result.ok
        /\ val.result.ok =>
               /\ HintOf("return") = NoHint \/ IsAcceptedType(HintOf("return"))
               /\ \A name \in NonPathParameters :
                      HintOf(name) = NoHint \/ IsAcceptedType(Unwrapped(HintOf(name)))

C8_Witness ==
    /\ val.pc = "done" /\ val.path = {"id"} /\ HintOf("return") = UserV1
    /\ "user" \in NonPathParameters /\ HintOf("user") = IntT /\ HintOf("id") = NoHint
    /\ ~val.result.ok /\ val.result.err = "UnsupportedType"

\* C9 as stated: validation fails when the handler declares fewer than two leading
\* parameters after the receiver, or when the first is typed as anything other
\* than the request type or the second as anything other than the response type.
C9_Original ==
    val.pc = "done" =>
        /\ Len(val.method.args) < 3 => ~val.result.ok
        /\ (Len(val.method.args) >= 3
                /\ HintOf(val.method.args[2]) \notin {NoHint, RequestT}) => ~val.result.ok
        /\ (Len(val.method.args) >= 3
                /\ HintOf(val.method.args[3]) \notin {NoHint, ResponseT}) => ~val.result.ok

\* C9 amended: validation fails when the handler declares fewer than two leading
\* parameters after the receiver, or when the first is typed as anything other
\* than the request type or Any, or the second as anything other than the response
\* type or Any; a leading parameter left untyped, typed as expected or typed Any is
\* not rejected by this rule.
C9_LeadingParameters ==
    val.pc = "done" =>
        /\ Len(val.method.args) < 3 => ~val.result.ok
        /\ (Len(val.method.args) >= 3
                /\ HintOf(val.method.args[2]) \notin {NoHint, AnyT, RequestT})
               => ~val.result.ok
        /\ (Len(val.method.args) >= 3
                /\ HintOf(val.method.args[3]) \notin {NoHint, AnyT, ResponseT})
               => ~val.result.ok
        /\ (Len(val.method.args) >= 3
                /\ HintOf(val.method.args[2]) \in {NoHint, AnyT, RequestT}
                /\ HintOf(val.method.args[3]) \in {NoHint, AnyT, ResponseT})
               => val.result.err \notin {"TooFewParameters", "FirstParameter",
                                         "SecondParameter"}

C9_Witness ==
    /\ val.pc = "done" /\ Len(val.method.args) >= 3
    /\ HintOf("request") = NoHint /\ HintOf("response") = IntT
    /\ ~val.result.ok /\ val.result.err = "SecondParameter"

(***************************************************************************)
(* Claims about the middleware, checked under Spec.                        *)
(***************************************************************************)
\* the handler a request is routed to, as process_resource finds it
RoutedHandler == resources[req.resource].methods[req.method]

\* the post-routing checkpoint has run on a request routed to a handler of a
\* typed resource
Checkpointed ==
    /\ req.pc \in {"resource", "failed", "responded", "done"}
    /\ resources[req.resource].typed
    /\ RoutedHandler.defined

\* some path value of the request does not decode into the type its parameter
\* declares
PathValueUndecodable ==
    \E name \in path_parameters(req.uri_template) :
        /\ RoutedHandler.method.hints[name] # NoHint
        /\ decode(providers, RoutedHandler.method.hints[name], req.fields[name]).tag = "err"

\* the payload of the request does not decode into the type the body parameter
\* of the handler declares
BodyPayloadUndecodable ==
    LET entry == resources[req.resource].annotations.of[req.method]
    IN  /\ entry.present
        /\ entry.annotation.body.present
        /\ entry.annotation.body.wrapped_type # NoHint
        /\ decode(providers, entry.annotation.body.wrapped_type, req.media).tag = "err"

\* C10 as stated: at the post-routing checkpoint a request whose path value or
\* body payload cannot be decoded into the handler's declared type is answered
\* with HTTP 422, and the handler is never invoked for that request.
C10_Original ==
    (Checkpointed /\ (PathValueUndecodable \/ BodyPayloadUndecodable))
        => (req.status = "422" /\ ~req.invoked)

(***************************************************************************)
(* Further claims about decode, checked under SpecDecode.                  *)
(***************************************************************************)
\* the outcome of the provider's construct-from-mapping operation for a model type
Construct(type_, json) ==
    IF ProviderOf(type_.n) = "pydantic" THEN parse_pydantic_from_dict(type_, json)
    ELSE parse_marshmallow_from_dict(type_, json)

\* decode asks the provider of the model type to construct from the raw value,
\* and the provider raises
ConstructRaises ==
    /\ dec.pc = "done" /\ dec.type.k = "model" /\ ProviderOf(dec.type.n) \in providers
    /\ ~IsInstance(dec.json, dec.type) /\ Truthy(dec.json)
    /\ Construct(dec.type, dec.json).tag = "err"

\* C11 as stated: when a provider's construct-from-mapping operation raises while
\* a request parameter is decoded, decode returns a failure whose reason is
\* ExternalSerializerException carrying the original error, and the interceptor
\* re-raises that original error instead of the HTTP 422 error.
C11_Original ==
    ConstructRaises =>
        /\ dec.result.tag = "err"
        /\ dec.result.reason = "ExternalSerializerException"
        /\ dec.result.exc = Construct(dec.type, dec.json).exc
        /\ decode_or_raise_error(providers, dec.type, dec.json).status = "error"
        /\ decode_or_raise_error(providers, dec.type, dec.json).error
               = Construct(dec.type, dec.json).exc

(***************************************************************************)
(* The hooks of the middleware called on their own: falcon hands           *)
(* process_resource the resource a request was routed to and a mapping of  *)
(* parameters, and process_response the resource, the response as the      *)
(* responder left it and whether the request succeeded. Here the mapping   *)
(* may lack a field of the route, and the request may have succeeded.      *)
(***************************************************************************)
\* the resource objects after add_route('/users/{id}', resource) was tried on each
RegisteredObjects(P, order) ==
    [r \in ResourceIds |->
        IF ResourceObjects[r].typed
        THEN patch_resource_methods(P, order, "/users/{id}", ResourceObjects[r]).resource
        ELSE ResourceObjects[r]]

InitHooks ==
    /\ providers \in ProviderSets
    /\ setOrder = NameOrder
    /\ dec = NoCall
    /\ val = NoValidation
    /\ resources = RegisteredObjects(providers, setOrder)
    /\ routes = NoRoutes
    /\ reg = NoRegistration
    /\ req = NoRequest

\* the names of the mapping handed to process_resource
ParameterNames == {<<>>, <<"id">>}
\* response.media as the responder left it
ResponseMedias == HandlerReturns \cup {DictV([NoItems EXCEPT !["field"] = "a"])}

\* the arguments of a call process_resource(request, response, resource, parameters)
EnterProcessResource(r, method, names, value, media) ==
    /\ req.pc = "idle"
    /\ LET fields == [name \in ExtraNames |->
                         IF name \in SeqToSet(names) THEN value ELSE NoneV]
       IN  req' = [NoRequest EXCEPT !.pc = "routed", !.resource = r, !.method = method,
                                    !.fields = fields,
                                    !.parameters = Parameters(names, fields),
                                    !.media = media]
    /\ UNCHANGED <<providers, setOrder, dec, val, resources, routes, reg>>

\* the arguments of a call
\* process_response(request, response, resource, request_succeeded)
EnterProcessResponse(r, method, request_succeeded, media) ==
    /\ req.pc = "idle"
    /\ req' = [NoRequest EXCEPT !.pc = "responded", !.resource = r, !.method = method,
                                !.status = IF request_succeeded THEN "200" ELSE "error",
                                !.error = IF request_succeeded THEN "" ELSE "Exception",
                                !.invoked = request_succeeded,
                                !.succeeded = request_succeeded,
                                !.response_media = media]
    /\ UNCHANGED <<providers, setOrder, dec, val, resources, routes, reg>>

NextHooks ==
    \/ \E r \in ResourceIds, method \in RequestMethods, names \in ParameterNames,
          value \in PathValues, media \in Medias :
          EnterProcessResource(r, method, names, value, media)
    \/ \E r \in ResourceIds, method \in RequestMethods, request_succeeded \in BOOLEAN,
          media \in ResponseMedias : EnterProcessResponse(r, method, request_succeeded, media)
    \/ ProcessResource
    \/ ProcessResponse

SpecHooks == InitHooks /\ [][NextHooks]_vars

(***************************************************************************)
(* Claims about the hooks, checked under SpecHooks and Spec.               *)
(***************************************************************************)
\* process_resource has just run on a request routed to a handler of a typed
\* resource
AfterProcessResource ==
    /\ req.pc \in {"resource", "failed"}
    /\ resources[req.resource].typed
    /\ RoutedHandler.defined

\* a usable Path descriptor of the handler's annotation names a parameter that
\* the mapping handed to the hook does not hold
MissingPathValue ==
    LET entry == resources[req.resource].annotations.of[req.method]
    IN  /\ entry.present
        /\ \E i \in 1..Len(entry.annotation.path) :
               /\ entry.annotation.path[i].is_usable
               /\ entry.annotation.path[i].name \notin SeqToSet(req.parameters.names)

\* C12 as stated: at the post-routing checkpoint, if a usable path parameter
\* declared by the handler has no value in the routed path-parameter mapping, the
\* interceptor raises an HTTP 400 client error and the handler is not invoked.
C12_Original ==
    (AfterProcessResource /\ MissingPathValue) => (req.status = "400" /\ ~req.invoked)

\* the declared return type of the handler the request was routed to
ReturnHint == Callable(RoutedHandler).hints["return"]

\* process_response is about to run for a succeeded request of a handler of a
\* typed resource whose response value does not decode as the declared return
\* type
ReturnMismatch ==
    /\ resources[req.resource].typed
    /\ req.succeeded
    /\ RoutedHandler.defined
    /\ ReturnHint # NoHint
    /\ decode(providers, ReturnHint, req.response_media).tag = "err"

\* C13: at the post-handler checkpoint of a succeeded request, when the response
\* value does not decode as the handler's declared return type, a
\* TypeValidationError is raised, never an HTTP client error, and the response
\* payload is left as it was.
C13_ReturnMismatchIsFatal ==
    [][(req.pc = "responded" /\ req'.pc = "done" /\ ReturnMismatch)
          => /\ req'.status = "error"
             /\ req'.error = "TypeValidationError"
             /\ req'.response_media = req.response_media]_vars

\* process_response has raised for None returned against Union[UserV2, UserV1]
C13_Witness ==
    /\ req.pc = "done"
    /\ ReturnMismatch
    /\ ReturnHint = UnionT(<<UserV2, UserV1>>)
    /\ req.response_media = NoneV
    /\ req.error = "TypeValidationError"

\* a POST for '/users/3' with the body {"username": "a"} was routed to
\* UserItemResource.on_post(self, request, response, user: UserV1, id: int) -> UserV1
EndToEndPost ==
    /\ req.pc \notin {"idle", "routed"}
    /\ req.resource = "UserItemResource"
    /\ req.uri_template = "/users/{id}"
    /\ req.method = "on_post"
    /\ req.fields["id"] = StrV(<<"3">>)
    /\ req.media = DictV([NoItems EXCEPT !["username"] = "a"])
    /\ ProviderOf("UserV1") \in providers

\* C14 as stated: end-to-end, for a registered POST handler with one int path
\* parameter, one model-typed body parameter and a model return type, the
\* post-routing checkpoint completes without error, the handler is invoked with
\* the path value decoded to an integer and the body decoded to a model instance,
\* and after the handler returns a model instance the response payload is that
\* model's dumped mapping.
C14_Original ==
    EndToEndPost =>
        /\ req.pc # "failed"
        /\ req.parameters.values["id"] = IntV(3)
        /\ req.parameters.values["user"] = InstV("UserV1", [NoItems EXCEPT !["username"] = "a"])
        /\ req.pc \in {"responded", "done"} => req.invoked
        /\ req.pc = "done" =>
               /\ req.status = "200"
               /\ req.response_media \in {NoneV, DictV([NoItems EXCEPT !["username"] = "a"])}

\* process_response has run for a succeeded request of a handler of a typed
\* resource that declares no return type
NoReturnTypeDeclared ==
    /\ req.pc = "done"
    /\ resources[req.resource].typed
    /\ req.succeeded
    /\ RoutedHandler.defined
    /\ ReturnHint = NoHint

\* C15 as stated: for a handler of a typed resource that declares no return
\* type, the post-handler checkpoint of a succeeded request completes without
\* raising and leaves the response payload exactly as the handler set it.
C15_Original ==
    [][(req.pc = "responded" /\ NoReturnTypeDeclared')
          => /\ req'.status = req.status
             /\ req'.error = ""
             /\ req'.response_media = req.response_media]_vars

\* process_resource has run on a request whose mapping holds a value for a
\* parameter that the handler declares without a type annotation
UntypedPathParameter(name) ==
    /\ AfterProcessResource
    /\ name \in SeqToSet(req.parameters.names)
    /\ name \in SeqToSet(RoutedHandler.method.args)
    /\ Callable(RoutedHandler).hints[name] = NoHint

\* C16 as stated: a path parameter that the handler declares without any type
\* annotation is not decoded: for every routed value, the post-routing checkpoint
\* completes without raising and the handler receives the raw routed value
\* unchanged.
C16_Original ==
    \A name \in ExtraNames :
        UntypedPathParameter(name) =>
            /\ req.pc = "resource"
            /\ req.status = ""
            /\ req.parameters.values[name] = req.fields[name]

(***************************************************************************)
(* Claims about registration, checked under Spec.                          *)
(***************************************************************************)
\* validate_method_signature raises for a handler of the resource under the
\* path parameters of the template
ValidationRaises(uri_template, resource) ==
    \E m \in MethodSet :
        /\ resource.methods[m].defined
        /\ ~validate_method_signature(providers, setOrder, Callable(resource.methods[m]),
                                      path_parameters(uri_template)).ok

\* every handler a typed resource defines has passed validation and is wrapped
AllHandlersPatched(resource) ==
    \A m \in MethodSet : resource.methods[m].defined => resource.methods[m].wrapped

\* a step of add_route: the only step that leaves the request alone
AddRouteStep == req.pc = "idle" /\ req' = req /\ reg'.pc = "done"

\* C17: add_route hands a typed resource's route to the router only after the
\* validation of all of the resource's handlers has succeeded; whenever
\* validation raises TypeValidationError the router does not receive the route,
\* so that every route of a typed resource the router holds, and every request
\* dispatched, is to a resource all of whose handlers passed validation.
C17_RouteOnlyAfterValidation ==
    /\ [][AddRouteStep =>
            /\ ~reg'.ok <=> (resources[reg'.resource].typed
                             /\ ValidationRaises(reg'.uri_template,
                                                 resources[reg'.resource]))
            /\ ~reg'.ok => routes' = routes
            /\ reg'.ok => routes' = [routes EXCEPT ![reg'.uri_template] = reg'.resource]]_vars
    /\ [](\A t \in Templates :
             (routes[t] # "" /\ resources[routes[t]].typed)
                 => AllHandlersPatched(resources[routes[t]]))
    /\ [](req.pc # "idle" => req.resource = routes[req.uri_template])

\* add_route has raised TypeValidationError and the router does not hold the route
C17_Witness ==
    /\ reg.pc = "done"
    /\ ~reg.ok
    /\ resources[reg.resource].typed
    /\ routes[reg.uri_template] # reg.resource

\* add_route has just succeeded for a typed resource
Registered ==
    /\ reg.pc = "done"
    /\ reg.ok
    /\ resources[reg.resource].typed

\* C18 as stated: after add_route succeeds for a resource that defines handlers
\* for several HTTP methods, the resource's annotations hold one Method Annotation
\* for every defined on_<method> handler; an annotation once attached under a
\* method name is never removed or replaced by any later step.
C18_Original ==
    /\ [](Registered =>
             \A m \in MethodSet :
                 resources[reg.resource].methods[m].defined
                     => resources[reg.resource].annotations.of[m].present)
    /\ [][\A r \in ResourceIds, m \in MethodSet :
              resources[r].annotations.of[m].present
                  => resources'[r].annotations.of[m] = resources[r].annotations.of[m]]_vars

(***************************************************************************)
(* Further claims about decode, checked under SpecDecode.                  *)
(***************************************************************************)
\* a declared type that is neither a union, nor a primitive, nor a model
Unsupported(type_) ==
    /\ origin_of(type_) # "Union"
    /\ type_ \notin PRIMITIVE_TYPES
    /\ type_.k # "model"

\* C19 as stated: decode never raises: for a declared type that is neither a
\* union, nor one of the five primitives, nor a model-shaped type (a list of int,
\* Any, a bare type variable), decode returns an UnsupportedDecoding failure for
\* every raw value.
C19_Original ==
    (dec.pc = "done" /\ Unsupported(dec.type))
        => (dec.result.tag = "err" /\ dec.result.reason = "UnsupportedDecoding")

\* the outcome of decoding the raw value of the call against member i of the
\* declared union
MemberOutcome(i) == decode(providers, args_of(dec.type)[i], dec.json)

\* decode was called on a union and no member decodes the raw value
NoMemberDecodes ==
    /\ dec.pc = "done"
    /\ origin_of(dec.type) = "Union"
    /\ \A i \in 1..Len(args_of(dec.type)) : MemberOutcome(i).tag # "ok"

\* decode was called on a union without type variable, and decoding against
\* every member returns a failure
EveryMemberFails ==
    /\ dec.pc = "done"
    /\ origin_of(dec.type) = "Union"
    /\ \A i \in 1..Len(args_of(dec.type)) :
           args_of(dec.type)[i].k # "typevar" /\ MemberOutcome(i).tag = "err"

MediasBefore == {NoneV, DictV([NoItems EXCEPT !["field"] = "a"])}
\* what a method assigns and returns: None, an empty mapping, an empty string,
\* a mapping, a model instance
BodyValues == {NoneV, DictV(NoItems), StrV(<<>>),
               DictV([NoItems EXCEPT !["username"] = "a"]),
               InstV("UserV1", [NoItems EXCEPT !["username"] = "a"])}
HandlerBodies ==
    {HandlerBody(FALSE, NoneV, returned) : returned \in BodyValues}
        \cup {HandlerBody(TRUE, assigned, returned) :
                 assigned \in BodyValues, returned \in BodyValues}

\* the arguments of a call resource.on_*(request, response, **parameters)
EnterResponder(r, method, before) ==
    /\ req.pc = "idle"
    /\ LET args == resources[r].methods[method].method.args
       IN  req' = [NoRequest EXCEPT !.pc = "resource", !.resource = r, !.method = method,
                                    !.parameters = Parameters(
                                        IF Len(args) > 3 THEN SubSeq(args, 4, Len(args))
                                        ELSE <<>>, NoValues),
                                    !.response_media = before]
    /\ UNCHANGED <<providers, setOrder, dec, val, resources, routes, reg>>

NextResponder ==
    \/ \E r \in ResourceIds, method \in RequestMethods, before \in MediasBefore :
          EnterResponder(r, method, before)
    \/ \E body \in HandlerBodies : Responder(body)

SpecResponder == InitHooks /\ [][NextResponder]_vars

\* the wrapped handler of a registered resource has run
WrapperRan ==
    /\ req.pc = "responded"
    /\ req.invoked
    /\ resources[req.resource].methods[req.method].wrapped

\* C21: the wrapped handler installed at registration assigns the original
\* handler's return value to the response payload if and only if that value is
\* non-empty (truthy); when the handler returns None or an empty value, the
\* response payload keeps whatever value it had before, including one the handler
\* assigned itself.
C21_WrapperStoresNonEmpty ==
    WrapperRan =>
        /\ Truthy(req.body.returned) => req.response_media = req.body.returned
        /\ (~Truthy(req.body.returned) /\ req.body.assigns)
               => req.response_media = req.body.assigned
        /\ (~Truthy(req.body.returned) /\ ~req.body.assigns)
               => req.response_media = req.before

\* the handler assigned a mapping itself and returned an empty mapping, and the
\* response payload is the mapping it assigned
C21_Witness ==
    /\ WrapperRan
    /\ req.body.assigns
    /\ req.body.assigned = DictV([NoItems EXCEPT !["username"] = "a"])
    /\ req.body.returned = DictV(NoItems)
    /\ req.before = DictV([NoItems EXCEPT !["field"] = "a"])
    /\ req.response_media = DictV([NoItems EXCEPT !["username"] = "a"])

\* the Method Annotation attached for the handler the request was routed to
RoutedEntry == resources[req.resource].annotations.of[req.method]

\* every value of the routed mapping decodes into the type its parameter declares
PathValuesDecode ==
    \A name \in SeqToSet(req.parameters.names) :
        /\ RoutedHandler.method.hints[name] # NoHint
        /\ decode(providers, RoutedHandler.method.hints[name], req.fields[name]).tag = "ok"

\* C22 as stated: at the post-routing checkpoint, when the matched method has a
\* usable Query descriptor the handler receives under that parameter's name the
\* result of decoding the request's query-parameter mapping against the declared
\* type, and a decoding failure raises a client error; when it has a usable Body
\* descriptor the same holds for the parsed request payload.
C22_Original ==
    (AfterProcessResource /\ RoutedEntry.present /\ PathValuesDecode) =>
        /\ (RoutedEntry.annotation.query.present /\ RoutedEntry.annotation.query.is_usable)
               => \/ req.status = "" /\ req.pc = "resource"
                  \/ req.status = "422"
        /\ (RoutedEntry.annotation.body.present /\ RoutedEntry.annotation.body.is_usable)
               => IF decode(providers, RoutedEntry.annotation.body.wrapped_type,
                            req.media).tag = "ok"
                  THEN /\ req.status = ""
                       /\ req.parameters.values[RoutedEntry.annotation.body.name]
                              = decode(providers, RoutedEntry.annotation.body.wrapped_type,
                                       req.media).val
                  ELSE req.status = "422"

(***************************************************************************)
(* Further claims about validation, checked under SpecValidate.            *)
(***************************************************************************)
\* the placeholders of the route pattern in the order the pattern declares them:
\* the patterns of the model are '/users', '/users/{id}' and '/users/{id}/{user}'
PatternOrder(path_parameters_names) == Iterate(path_parameters_names, NameOrder)

\* the names of the Path descriptors of an annotation, in their order
PathNames(annotation) == [i \in 1..Len(annotation.path) |-> annotation.path[i].name]

\* validation has produced an annotation with two or more Path descriptors
SeveralPathDescriptors ==
    /\ val.pc = "done"
    /\ val.result.ok
    /\ Len(val.result.annotation.path) >= 2

\* C23 as stated: for every route pattern with two or more typed placeholders, the
\* Path descriptors of the Method Annotation produced by validation appear in the
\* same order as their placeholders appear in the route pattern, and two
\* validations of the same handler and route yield the same order.
C23_Original ==
    SeveralPathDescriptors =>
        /\ PathNames(val.result.annotation)
               = SelectSeq(PatternOrder(val.path),
                           LAMBDA name : val.method.hints[name] # NoHint)
        /\ \A order \in SetOrders :
               validate_method_signature(providers, order, val.method, val.path).ok
                   => PathNames(validate_method_signature(providers, order, val.method,
                                                          val.path).annotation)
                          = PathNames(val.result.annotation)

\* the Path, Query and Body descriptors of an annotation
Descriptors(annotation) ==
    {annotation.path[i] : i \in 1..Len(annotation.path)}
        \cup {d \in {annotation.query, annotation.body} : d.present}

\* C24 as stated: for every Path, Query or Body descriptor created by signature
\* validation, its is_usable flag is false exactly when the parameter's declared
\* type is Any or the parameter has no type annotation, and true for every other
\* declared type.
C24_Original ==
    (val.pc = "done" /\ val.result.ok) =>
        \A d \in Descriptors(val.result.annotation) :
            d.is_usable <=> d.wrapped_type \notin {AnyT, NoHint}

(***************************************************************************)
(* Further claims about registration, checked under Spec.                  *)
(***************************************************************************)
\* C25 as stated: registration is all-or-nothing per resource: if validation of
\* any one handler fails during add_route, the resource is left exactly as it was
\* before the call, with no handler replaced by a wrapper and no annotation
\* attached, even for handlers that were validated earlier in that call.
C25_Original ==
    [][(AddRouteStep /\ ~reg'.ok) => resources' = resources]_vars

(***************************************************************************)
(* Requests served concurrently: the HTTP layer runs the hooks and the     *)
(* responder of several requests on its workers, their steps interleaved   *)
(* in any order. Here req holds one request per worker; the resources are  *)
(* those add_route has left, and no route is added while requests are      *)
(* served.                                                                 *)
(***************************************************************************)
Workers == {"w1", "w2"}

\* the inputs of the requests served concurrently
ConcurrentValues == {StrV(<<"3">>)}
ConcurrentMedias == {DictV(NoItems), DictV([NoItems EXCEPT !["username"] = "a"])}
ConcurrentBodies ==
    {HandlerBody(FALSE, NoneV, NoneV),
     HandlerBody(FALSE, NoneV, InstV("UserV1", [NoItems EXCEPT !["username"] = "a"])),
     HandlerBody(TRUE, DictV([NoItems EXCEPT !["field"] = "a"]), DictV(NoItems))}

InitConcurrent ==
    /\ providers \in ProviderSets
    /\ setOrder = NameOrder
    /\ dec = NoCall
    /\ val = NoValidation
    /\ resources = RegisteredObjects(providers, setOrder)
    /\ routes = NoRoutes
    /\ reg = NoRegistration
    /\ req = [w \in Workers |-> NoRequest]

\* a request routed to a resource under '/users/{id}' reaches worker w
ReceiveAt(w, r, method, value, media) ==
    /\ req[w].pc = "idle"
    /\ LET fields == [name \in ExtraNames |-> IF name = "id" THEN value ELSE NoneV]
       IN  req' = [req EXCEPT ![w] =
                      [NoRequest EXCEPT !.pc = "routed", !.uri_template = "/users/{id}",
                                        !.resource = r, !.method = method,
                                        !.fields = fields,
                                        !.parameters = Parameters(<<"id">>, fields),
                                        !.media = media]]
    /\ UNCHANGED <<providers, setOrder, dec, val, resources, routes, reg>>

\* worker w is about to call the responder with the parameters it accepts
RespondAt(w, r, method, media) ==
    /\ req[w].pc = "idle"
    /\ LET args == resources[r].methods[method].method.args
       IN  req' = [req EXCEPT ![w] =
                      [NoRequest EXCEPT !.pc = "resource", !.resource = r,
                                        !.method = method,
                                        !.parameters = Parameters(
                                            IF Len(args) > 3
                                            THEN SubSeq(args, 4, Len(args)) ELSE <<>>,
                                            NoValues),
                                        !.media = media]]
    /\ UNCHANGED <<providers, setOrder, dec, val, resources, routes, reg>>

\* a variant of the hook that initialises the annotations of the resource
ProcessResourceAtWriting(w) ==
    /\ req[w].pc = "routed"
    /\ req' = [req EXCEPT ![w] = after_process_resource(req[w],
                  process_resource(providers, resources[req[w].resource], req[w]))]
    /\ resources' = [resources EXCEPT ![req[w].resource] = init_annotations(@)]
    /\ UNCHANGED <<providers, setOrder, dec, val, routes, reg>>

ProcessResourceAt(w) ==
    /\ req[w].pc = "routed"
    /\ req' = [req EXCEPT ![w] = after_process_resource(req[w],
                  process_resource(providers, resources[req[w].resource], req[w]))]
    /\ UNCHANGED <<providers, setOrder, dec, val, resources, routes, reg>>

ResponderAt(w, body) ==
    /\ req[w].pc = "resource"
    /\ req' = [req EXCEPT ![w] = after_responder(
                  resources[req[w].resource].methods[req[w].method], req[w], body)]
    /\ UNCHANGED <<providers, setOrder, dec, val, resources, routes, reg>>

ProcessResponseAt(w) ==
    /\ req[w].pc \in {"failed", "responded"}
    /\ req' = [req EXCEPT ![w] = after_process_response(req[w],
                  process_response(providers, resources[req[w].resource], req[w]))]
    /\ UNCHANGED <<providers, setOrder, dec, val, resources, routes, reg>>

NextConcurrent ==
    \/ \E w \in Workers, r \in ResourceIds, method \in RequestMethods,
          value \in ConcurrentValues, media \in ConcurrentMedias :
          ReceiveAt(w, r, method, value, media)
    \/ \E w \in Workers, r \in ResourceIds, method \in RequestMethods,
          media \in ConcurrentMedias : RespondAt(w, r, method, media)
    \/ \E w \in Workers : ProcessResourceAt(w)
    \/ \E w \in Workers, body \in ConcurrentBodies : ResponderAt(w, body)
    \/ \E w \in Workers : ProcessResponseAt(w)

SpecConcurrent == InitConcurrent /\ [][NextConcurrent]_vars

\* the request q after its next step when it is processed alone on the resources
\* as registration left them
AloneStep(q, next) ==
    LET resource == RegisteredObjects(providers, setOrder)[q.resource]
    IN  CASE q.pc = "routed" ->
                next = after_process_resource(q, process_resource(providers, resource, q))
          [] q.pc = "resource" ->
                \E body \in ConcurrentBodies :
                    next = after_responder(resource.methods[q.method], q, body)
          [] q.pc \in {"failed", "responded"} ->
                next = after_process_response(q, process_response(providers, resource, q))
          [] OTHER -> q.pc = "idle"

\* C26: per-request processing (both interceptor checkpoints, the responder and
\* the decode calls they make) never writes to shared state: it modifies neither
\* the resources' annotations and handlers nor the provider registry nor the
\* routes; a step of one request leaves every other request alone, and under any
\* interleaving every step of a request has the outcome it has when the request is
\* processed alone.
C26_NoSharedWrites ==
    [][/\ resources' = resources
       /\ providers' = providers
       /\ routes' = routes
       /\ \A w \in Workers :
              req'[w] # req[w] =>
                  /\ AloneStep(req[w], req'[w])
                  /\ \A v \in Workers \ {w} : req'[v] = req[v]]_vars

\* one request to a typed resource is processed to the end while another request
\* to the same resource is between its checkpoints
C26_Witness ==
    /\ req["w1"].pc = "done"
    /\ req["w2"].pc \in {"resource", "failed", "responded"}
    /\ req["w1"].resource = req["w2"].resource
    /\ resources[req["w1"].resource].typed
    /\ req["w1"].invoked

\* add_route has just returned or raised for a typed resource that defines at
\* least one handler
TriedToRegister ==
    /\ reg.pc = "done"
    /\ resources[reg.resource].typed
    /\ \E m \in MethodSet : resources[reg.resource].methods[m].defined

\* C27: with zero schema providers registered, the type-precondition check raises
\* the distinct 'no schema provider installed' TypeValidationError for every
\* input, including an absent type hint; therefore registering any typed resource
\* that defines at least one on_<method> handler fails, even when the handler has
\* no type annotations at all.
C27_NoProviderNoRegistration ==
    providers = {} =>
        /\ \A r \in ResourceIds, m \in MethodSet, name \in HintNames,
              checker \in {"request", "response"} :
               validate_type_preconditions(providers,
                   resources[r].methods[m].method.hints[name], checker)
                       = "NoSchemaProvider"
        /\ TriedToRegister =>
               /\ ~reg.ok
               /\ reg.err = "NoSchemaProvider"
               /\ \A t \in Templates : routes[t] # reg.resource

\* without providers, add_route has raised for the resource whose handler has no
\* annotations
C27_Witness ==
    /\ providers = {}
    /\ TriedToRegister
    /\ reg.resource = "ValidResourceWithQueryParameter1"
    /\ resources[reg.resource].methods["on_post"].method.hints = NoHints
    /\ ~reg.ok
    /\ reg.err = "NoSchemaProvider"

\* a successful add_route has replaced the handlers of the typed resource by
\* wrappers
SuccessfullyRegistered(resource) ==
    /\ resource.typed
    /\ \E m \in MethodSet : resource.methods[m].defined
    /\ AllHandlersPatched(resource)

\* C28: a typed resource instance can be registered successfully at most once:
\* after one successful add_route has replaced its handlers with wrappers, every
\* further add_route call with the same instance raises TypeValidationError and
\* adds no second route, so that the instance is routed under at most one
\* template.
C28_RegisteredAtMostOnce ==
    /\ [][(AddRouteStep /\ SuccessfullyRegistered(resources[reg'.resource]))
             => (~reg'.ok /\ routes' = routes /\ resources' = resources)]_vars
    /\ [](\A r \in ResourceIds :
             (resources[r].typed /\ \E m \in MethodSet : resources[r].methods[m].defined)
                 => Cardinality({t \in Templates : routes[t] = r}) <= 1)

\* add_route has raised for an instance that is already routed under the other
\* template
C28_Witness ==
    /\ reg.pc = "done"
    /\ ~reg.ok
    /\ SuccessfullyRegistered(resources[reg.resource])
    /\ \E t \in Templates \ {reg.uri_template} : routes[t] = reg.resource
    /\ routes[reg.uri_template] # reg.resource

====
